---- MODULE Spec2Model ----
(***************************************************************************)
(* Marine Debris Detection API (src/backend/main.py).                      *)
(*                                                                         *)
(* The service holds one module-level singleton, `model`, written by       *)
(* load_model() at startup, and serves GET /, GET /health and POST /detect.*)
(* Each POST /detect request is a task of the event loop with its own      *)
(* locals (image_array, results, detections, annotated_image, ...).        *)
(*                                                                         *)
(* Units and encodings                                                     *)
(*   - a text (str) is a sequence of string fragments whose concatenation  *)
(*     is the text; a content type is a sequence of one-character strings, *)
(*     so that str.startswith is computed, not assumed;                    *)
(*   - a confidence is an integer number of thousandths (500 is 0.5);      *)
(*   - a box coordinate is an integer number of tenths of a pixel;         *)
(*   - Python's None for an optional value is the empty sequence <<>> and  *)
(*     a present value v is <<v>>, except for `model`, where None is the   *)
(*     record None below;                                                  *)
(*   - an image is what the detector sees in it (its scene) plus the list  *)
(*     of drawing operations applied to it.                                *)
(***************************************************************************)
EXTENDS Integers, Sequences, FiniteSets, TLC

VARIABLES
    model,            \* the global model singleton (line 25)
    started,          \* TRUE once startup_event has run
    root_response,    \* last response of GET /        (<<>> before any)
    health_response,  \* last response of GET /health  (<<>> before any)
    pc,               \* per request: its position in detect_debris
    trace,            \* per request: the positions it went through
    file,             \* per request: the UploadFile (<<>> before arrival)
    image_array,      \* per request: decoded BGR array
    results,          \* per request: what model(image_array) returned
    idx,              \* per request: number of boxes the loop has consumed
    detections,       \* per request: local list `detections`
    annotated_image,  \* per request: local `annotated_image`
    detection_count,  \* per request: local `detection_count`
    severity,         \* per request: (severity_level, severity_message)
    annotated_image_base64, \* per request: local `annotated_image_base64`
    response,         \* per request: the HTTP response (<<>> while running)
    cls_last,         \* classify_severity harness: the last call
    cls_prev          \* classify_severity harness: the call before it

svcVars == <<model, started, root_response, health_response>>
reqVars == <<pc, trace, file, image_array, results, idx, detections,
             annotated_image, detection_count, severity,
             annotated_image_base64, response>>
clsVars == <<cls_last, cls_prev>>
vars    == <<svcVars, reqVars, clsVars>>

(***************************************************************************)
(* Bounds                                                                  *)
(***************************************************************************)
MaxBoxes == 3

NumRequests == 2

MaxCount == 20

Requests == 1..NumRequests

SeqRequests == {1}

(***************************************************************************)
(* Program constants                                                       *)
(***************************************************************************)
ConfThreshold == 500

(***************************************************************************)
(* Texts                                                                   *)
(***************************************************************************)
ImagePrefix == <<"i", "m", "a", "g", "e", "/">>

ImageJpeg == <<"i", "m", "a", "g", "e", "/", "j", "p", "e", "g">>

ImagePng == <<"i", "m", "a", "g", "e", "/", "p", "n", "g">>

TextPlain == <<"t", "e", "x", "t", "/", "p", "l", "a", "i", "n">>

ImageNoSlash == <<"i", "m", "a", "g", "e">>

UpperImagePng == <<"I", "m", "a", "g", "e", "/", "p", "n", "g">>

OctetStreamImage == <<"x", "/", "i", "m", "a", "g", "e", "/">>

\* str.startswith(prefix)
StartsWith(s, prefix) ==
    /\ Len(s) >= Len(prefix)
    /\ SubSeq(s, 1, Len(prefix)) = prefix

(***************************************************************************)
(* The model singleton and load_model                                      *)
(***************************************************************************)
None == [weights |-> "None", has_names |-> FALSE, names |-> <<>>]

\* YOLO(path): the loaded detector with its label table (names[class_id],
\* class ids counted from 0).
YOLO(path) ==
    [weights |-> path,
     has_names |-> TRUE,
     names |-> IF path = "best.pt"
               THEN (0 :> <<"plastic">> @@ 1 :> <<"net">>)
               ELSE (0 :> <<"person">> @@ 1 :> <<"bicycle">>)]

\* load_model(): best.pt when present, else yolov8n.pt; any exception of the
\* load leaves the singleton None.
load_model(best_exists, load_raises) ==
    IF load_raises THEN None
    ELSE IF best_exists THEN YOLO("best.pt") ELSE YOLO("yolov8n.pt")

(***************************************************************************)
(* Exceptions                                                              *)
(***************************************************************************)
HTTPException(status_code, detail) ==
    [type |-> "HTTPException", status_code |-> status_code, detail |-> detail]

\* Any other exception, with its message.
Error(type, message) ==
    [type |-> type, status_code |-> 0, detail |-> <<message>>]

\* str(e): an HTTPException prints as "<status_code>: <detail>", any other
\* exception as its message.
Str(e) ==
    IF e.type = "HTTPException"
    THEN <<ToString(e.status_code), ": ">> \o e.detail
    ELSE e.detail

\* The response the framework sends for an HTTPException that leaves the
\* handler: its status code and {"detail": ...}, no result payload.
ErrorResponse(e) ==
    [status_code |-> e.status_code, detail |-> e.detail, content |-> <<>>]

\* except Exception as e: raise HTTPException(status_code=500, detail=str(e))
ExceptHandler(e) == HTTPException(500, Str(e))

\* file.content_type is None: None has no startswith.
ExcNoContentType ==
    Error("AttributeError", "'NoneType' object has no attribute 'startswith'")

\* raise HTTPException(status_code=400, detail="File must be an image")
ExcNotImage == HTTPException(400, <<"File must be an image">>)

\* Image.open / cv2.cvtColor cannot decode the bytes.
ExcDecode == Error("UnidentifiedImageError", "cannot identify image file")

\* raise HTTPException(status_code=500, detail="Model not loaded")
ExcModelNotLoaded == HTTPException(500, <<"Model not loaded">>)

\* Calling None.
ExcCallNone == Error("TypeError", "'NoneType' object is not callable")

\* model(image_array) raises.
ExcInference == Error("RuntimeError", "inference failed")

\* cv2.rectangle / cv2.putText raises.
ExcDraw == Error("cv2.error", "rectangle failed")

\* cv2.imencode raises.
ExcEncode == Error("cv2.error", "imencode failed")

(***************************************************************************)
(* classify_severity                                                       *)
(***************************************************************************)
classify_severity_off(count) ==
    IF count >= 15 THEN <<"red", "Critical pollution detected">>
    ELSE IF count >= 6 THEN <<"yellow", "Moderate pollution detected">>
    ELSE <<"green", "Low pollution detected">>

classify_severity(count) ==
    IF count > 15 THEN <<"red", "Critical pollution detected">>
    ELSE IF count >= 6 THEN <<"yellow", "Moderate pollution detected">>
    ELSE <<"green", "Low pollution detected">>

(***************************************************************************)
(* The external detector and the uploads                                   *)
(***************************************************************************)
\* The raw detections a model can yield: box.xyxy[0] (tenths of a pixel),
\* box.conf[0] (thousandths), box.cls[0]. The confidences lie below, on and
\* above the threshold; 905 is a midpoint of the label's rounding.
RawBoxes ==
    { [xyxy |-> <<105, 57, 3004, 2009>>, conf |-> 300, cls |-> 0],
      [xyxy |-> <<400, 1200, 900, 1800>>, conf |-> 500, cls |-> 1],
      [xyxy |-> <<10, 1005, 555, 1999>>, conf |-> 510, cls |-> 0],
      [xyxy |-> <<2500, 95, 2800, 310>>, conf |-> 905, cls |-> 1] }

BoxSeqs(n) == UNION { [1..k -> RawBoxes] : k \in 0..n }

\* One Result per image: its boxes, or boxes = None (has_boxes = FALSE).
Scenes(n) ==
    { <<[has_boxes |-> FALSE, boxes |-> <<>>]>> }
        \cup { <<[has_boxes |-> TRUE, boxes |-> b]>> : b \in BoxSeqs(n) }

\* Scenes crowded enough to reach every severity level: n boxes above the
\* threshold, for the counts around the two steps of classify_severity.
CrowdedScenes ==
    LET b == CHOOSE x \in RawBoxes : x.conf = 905 IN
    { <<[has_boxes |-> TRUE, boxes |-> [i \in 1..n |-> b]]>> : n \in {5, 6, 15, 16} }

\* What can go wrong in the libraries while one upload is handled.
Faults == {"none", "decode", "inference", "draw", "encode"}

UploadFile(has_ct, ct, name, scene, fault) ==
    [has_content_type |-> has_ct, content_type |-> ct, filename |-> name,
     scene |-> scene, fault |-> fault]

\* Uploads of the sequential specification.
Uploads ==
    { UploadFile(TRUE, ImageJpeg, "debris.jpg", s, f) :
          s \in Scenes(MaxBoxes) \cup CrowdedScenes, f \in Faults }
        \cup { UploadFile(TRUE, ct, "notes.txt", <<[has_boxes |-> FALSE, boxes |-> <<>>]>>, "none") :
                   ct \in {TextPlain, ImageNoSlash, UpperImagePng, OctetStreamImage, <<>>} }
        \cup { UploadFile(FALSE, <<>>, "blob", <<[has_boxes |-> FALSE, boxes |-> <<>>]>>, "none") }

\* Uploads of the concurrent specification: distinct files with distinct
\* detections.
ConcUploads ==
    LET b(c) == CHOOSE x \in RawBoxes : x.conf = c IN
    { UploadFile(TRUE, ImageJpeg, "a.jpg",
                 <<[has_boxes |-> TRUE, boxes |-> <<b(510), b(500)>>]>>, "none"),
      UploadFile(TRUE, ImagePng, "b.png",
                 <<[has_boxes |-> TRUE, boxes |-> <<b(905)>>]>>, "none"),
      UploadFile(TRUE, TextPlain, "c.txt",
                 <<[has_boxes |-> FALSE, boxes |-> <<>>]>>, "none"),
      UploadFile(TRUE, ImageJpeg, "d.jpg",
                 <<[has_boxes |-> TRUE, boxes |-> <<b(300), b(905)>>]>>, "draw") }

(***************************************************************************)
(* process_image: the pieces of the loop body                              *)
(***************************************************************************)
\* for result in results: if result.boxes is not None: for box in boxes
RECURSIVE AllBoxes(_)
AllBoxes(res) ==
    IF res = <<>> THEN <<>>
    ELSE (IF Head(res).has_boxes THEN Head(res).boxes ELSE <<>>)
             \o AllBoxes(Tail(res))

KeepGe(confidence) == confidence >= ConfThreshold

\* if confidence > 0.5
Keep(confidence) == confidence > ConfThreshold

\* model.names[class_id] if hasattr(model, 'names') else f"class_{class_id}"
ClassLabel(m, class_id) ==
    IF m.has_names THEN m.names[class_id]
    ELSE <<"class_", ToString(class_id)>>

\* int(x) of a float given in tenths: truncation toward zero.
IntTrunc(x) == IF x >= 0 THEN x \div 10 ELSE -((-x) \div 10)

\* 2^k modulo m, without leaving the machine integers.
RECURSIVE Pow2Mod(_, _)
Pow2Mod(k, m) == IF k = 0 THEN 1 % m ELSE (2 * Pow2Mod(k - 1, m)) % m

\* The number of doublings that bring c thousandths (0 < c <= 1000) to 1000
\* or more: minus the binary exponent of c/1000.
RECURSIVE Doublings(_)
Doublings(c) == IF c >= 1000 THEN 0 ELSE 1 + Doublings(2 * c)

\* box.conf is a float32: the float32 nearest to c/1000 is n * ulp with
\* ulp = 2^-(23 + Doublings(c)) and n the integer nearest to c/(1000 * ulp).
\* Float32Rem(c) is the remainder of c * 2^(23 + Doublings(c)) by 1000: 0 when
\* c/1000 is a float32 exactly, below 500 when the float32 lies below c/1000,
\* above 500 when it lies above (500 itself cannot occur: 125 is odd).
Float32Rem(c) == (c * Pow2Mod(23 + Doublings(c), 1000)) % 1000

\* f"{confidence:.2f}" of the float32 confidence nearest to c thousandths
\* (0 <= c <= 1000): the exact binary value is rounded to hundredths. Off a
\* midpoint between two hundredths the float32 error cannot change the result;
\* on a midpoint (c ends in 5) the side the float32 lies on decides, and a
\* midpoint that is a float32 exactly (.125, .375, .625, .875) goes to the even
\* hundredth.
Fmt2(confidence) ==
    LET lo == confidence \div 10
        h == IF confidence % 10 # 5 THEN (confidence + 5) \div 10
             ELSE IF Float32Rem(confidence) = 0
                  THEN (IF lo % 2 = 0 THEN lo ELSE lo + 1)
             ELSE IF Float32Rem(confidence) < 500 THEN lo
             ELSE lo + 1
    IN <<ToString(h \div 100), ".", ToString((h % 100) \div 10), ToString(h % 10)>>

\* The dict appended to `detections`.
Detection(box, m) ==
    [bbox |-> box.xyxy, confidence |-> box.conf, class |-> ClassLabel(m, box.cls)]

\* cv2.rectangle and cv2.putText on the annotated image.
Draw(img, box, m) ==
    [img EXCEPT !.drawn = @ \o
        << [op |-> "rectangle",
            pt1 |-> <<IntTrunc(box.xyxy[1]), IntTrunc(box.xyxy[2])>>,
            pt2 |-> <<IntTrunc(box.xyxy[3]), IntTrunc(box.xyxy[4])>>],
           [op |-> "putText",
            text |-> ClassLabel(m, box.cls) \o <<": ">> \o Fmt2(box.conf),
            org |-> <<IntTrunc(box.xyxy[1]), IntTrunc(box.xyxy[2] - 100)>>] >>]

AnnotateAlways(img, box, m) == Draw(img, box, m)

\* The drawing half of the loop body: only under the threshold test.
Annotate(img, box, m) ==
    IF Keep(box.conf) THEN Draw(img, box, m) ELSE img

AppendDetectionShared(dets, r, d) ==
    [q \in DOMAIN dets |-> IF q = r \/ pc[q] = "inferred" THEN Append(dets[q], d) ELSE dets[q]]

\* detections.append(...) on the request's own list.
AppendDetection(dets, r, d) == [dets EXCEPT ![r] = Append(@, d)]

\* cv2.imencode('.jpg', img) then base64.b64encode(buffer).decode()
EncodeJpegBase64(img) ==
    [encoding |-> "base64", bytes |-> [format |-> "jpeg", image |-> img]]

(***************************************************************************)
(* State                                                                   *)
(***************************************************************************)
locals == <<file, image_array, results, idx, detections, annotated_image,
            detection_count, severity, annotated_image_base64>>

Init ==
    /\ model = None
    /\ started = FALSE
    /\ root_response = <<>>
    /\ health_response = <<>>
    /\ pc = [r \in Requests |-> "idle"]
    /\ trace = [r \in Requests |-> <<>>]
    /\ file = [r \in Requests |-> <<>>]
    /\ image_array = [r \in Requests |-> <<>>]
    /\ results = [r \in Requests |-> <<>>]
    /\ idx = [r \in Requests |-> 0]
    /\ detections = [r \in Requests |-> <<>>]
    /\ annotated_image = [r \in Requests |-> <<>>]
    /\ detection_count = [r \in Requests |-> <<>>]
    /\ severity = [r \in Requests |-> <<>>]
    /\ annotated_image_base64 = [r \in Requests |-> <<>>]
    /\ response = [r \in Requests |-> <<>>]
    /\ cls_last = <<>>
    /\ cls_prev = <<>>

(***************************************************************************)
(* Service lifecycle and the GET endpoints                                 *)
(***************************************************************************)
\* startup_event: load_model() once, before any request is served.
Startup ==
    /\ ~started
    /\ \E best_exists \in BOOLEAN, load_raises \in BOOLEAN :
           model' = load_model(best_exists, load_raises)
    /\ started' = TRUE
    /\ UNCHANGED <<root_response, health_response, reqVars, clsVars>>

\* GET /
Root ==
    /\ started
    /\ root_response' =
           <<[status_code |-> 200,
              body |-> [message |-> "Marine Debris Detection API is running"]]>>
    /\ UNCHANGED <<model, started, health_response, reqVars, clsVars>>

HealthCheckReload ==
    /\ started
    /\ model' = IF model = None THEN YOLO("yolov8n.pt") ELSE model
    /\ health_response' =
           <<[status_code |-> 200,
              body |-> [status |-> "healthy", model_loaded |-> model' # None]]>>
    /\ UNCHANGED <<started, root_response, reqVars, clsVars>>

\* GET /health
HealthCheck ==
    /\ started
    /\ health_response' =
           <<[status_code |-> 200,
              body |-> [status |-> "healthy", model_loaded |-> model # None]]>>
    /\ UNCHANGED <<model, started, root_response, reqVars, clsVars>>

(***************************************************************************)
(* POST /detect                                                            *)
(***************************************************************************)
Goto(r, stage) ==
    /\ pc' = [pc EXCEPT ![r] = stage]
    /\ trace' = [trace EXCEPT ![r] = Append(@, stage)]

RaisePartial(r, e) ==
    /\ Goto(r, "failed")
    /\ response' = [response EXCEPT ![r] =
           <<[status_code |-> IF e.type = "HTTPException" THEN 500 ELSE 200,
              detail |-> Str(e),
              content |-> <<>>]>>]

RaiseRetry(r, e) ==
    /\ pc' = [pc EXCEPT ![r] = IF e.type = "HTTPException" THEN "failed" ELSE "received"]
    /\ trace' = [trace EXCEPT ![r] =
           IF e.type = "HTTPException" THEN Append(@, "failed")
           ELSE Append(Append(@, "failed"), "received")]
    /\ response' = [response EXCEPT ![r] =
           IF e.type = "HTTPException"
           THEN <<ErrorResponse(ExceptHandler(e))>> ELSE @]

\* An exception raised inside the try block: the outer `except Exception`
\* turns it into HTTPException(500, str(e)), which leaves the handler.
Raise(r, e) ==
    /\ Goto(r, "failed")
    /\ response' = [response EXCEPT ![r] = <<ErrorResponse(ExceptHandler(e))>>]

\* The request arrives with its upload.
Receive(r, f) ==
    /\ started
    /\ pc[r] = "idle"
    /\ file' = [file EXCEPT ![r] = <<f>>]
    /\ Goto(r, "received")
    /\ UNCHANGED <<svcVars, clsVars, image_array, results, idx, detections,
                   annotated_image, detection_count, severity,
                   annotated_image_base64, response>>

\* if not file.content_type.startswith("image/"): raise HTTPException(400)
Validate(r) ==
    /\ pc[r] = "received"
    /\ LET f == file[r][1] IN
         IF ~f.has_content_type
         THEN Raise(r, ExcNoContentType)
         ELSE IF ~StartsWith(f.content_type, ImagePrefix)
         THEN Raise(r, ExcNotImage)
         ELSE Goto(r, "validated") /\ UNCHANGED response
    /\ UNCHANGED <<svcVars, clsVars, locals>>

\* contents = await file.read(); Image.open; cv2.cvtColor(..., RGB2BGR)
Decode(r) ==
    /\ pc[r] = "validated"
    /\ LET f == file[r][1] IN
         IF f.fault = "decode"
         THEN /\ Raise(r, ExcDecode)
              /\ UNCHANGED image_array
         ELSE /\ image_array' = [image_array EXCEPT ![r] =
                      <<[channels |-> "BGR", scene |-> f.scene, drawn |-> <<>>]>>]
              /\ Goto(r, "decoded")
              /\ UNCHANGED response
    /\ UNCHANGED <<svcVars, clsVars, file, results, idx, detections,
                   annotated_image, detection_count, severity,
                   annotated_image_base64>>

ModelCheckSkipped(m) == FALSE

\* if model is None
ModelIsNone(m) == m = None

\* process_image up to the loop: the model check, results = model(image_array),
\* detections = [], annotated_image = image_array.copy()
Infer(r) ==
    /\ pc[r] = "decoded"
    /\ LET f == file[r][1]
           img == image_array[r][1] IN
         IF ModelIsNone(model)
         THEN /\ Raise(r, ExcModelNotLoaded)
              /\ UNCHANGED <<results, idx, detections, annotated_image>>
         ELSE IF model = None
         THEN /\ Raise(r, ExcCallNone)
              /\ UNCHANGED <<results, idx, detections, annotated_image>>
         ELSE IF f.fault = "inference"
         THEN /\ Raise(r, ExcInference)
              /\ UNCHANGED <<results, idx, detections, annotated_image>>
         ELSE /\ results' = [results EXCEPT ![r] = img.scene]
              /\ detections' = [detections EXCEPT ![r] = <<>>]
              /\ annotated_image' = [annotated_image EXCEPT ![r] = <<img>>]
              /\ idx' = [idx EXCEPT ![r] = 0]
              /\ Goto(r, "inferred")
              /\ UNCHANGED response
    /\ UNCHANGED <<svcVars, clsVars, file, image_array, detection_count,
                   severity, annotated_image_base64>>

\* One iteration of `for box in boxes`: the detection is appended before the
\* box is drawn, so a drawing failure leaves it in the (discarded) local list.
LoopBox(r) ==
    /\ pc[r] = "inferred"
    /\ idx[r] < Len(AllBoxes(results[r]))
    /\ LET box == AllBoxes(results[r])[idx[r] + 1] IN
         IF Keep(box.conf) /\ file[r][1].fault = "draw"
         THEN /\ detections' = AppendDetection(detections, r, Detection(box, model))
              /\ Raise(r, ExcDraw)
              /\ UNCHANGED <<idx, annotated_image>>
         ELSE /\ detections' = IF Keep(box.conf)
                               THEN AppendDetection(detections, r, Detection(box, model))
                               ELSE detections
              /\ annotated_image' = [annotated_image EXCEPT ![r] =
                                        <<Annotate(@[1], box, model)>>]
              /\ idx' = [idx EXCEPT ![r] = @ + 1]
              /\ UNCHANGED <<pc, trace, response>>
    /\ UNCHANGED <<svcVars, clsVars, file, image_array, results,
                   detection_count, severity, annotated_image_base64>>

\* return detections, annotated_image
ReturnFromProcess(r) ==
    /\ pc[r] = "inferred"
    /\ idx[r] = Len(AllBoxes(results[r]))
    /\ Goto(r, "annotated")
    /\ UNCHANGED <<svcVars, clsVars, locals, response>>

\* detection_count = len(detections); classify_severity(detection_count)
Classify(r) ==
    /\ pc[r] = "annotated"
    /\ detection_count' = [detection_count EXCEPT ![r] = <<Len(detections[r])>>]
    /\ severity' = [severity EXCEPT ![r] = classify_severity(Len(detections[r]))]
    /\ Goto(r, "classified")
    /\ UNCHANGED <<svcVars, clsVars, file, image_array, results, idx, detections,
                   annotated_image, annotated_image_base64, response>>

\* cv2.imencode('.jpg', annotated_image); base64.b64encode(buffer).decode()
Serialize(r) ==
    /\ pc[r] = "classified"
    /\ IF file[r][1].fault = "encode"
       THEN /\ Raise(r, ExcEncode)
            /\ UNCHANGED annotated_image_base64
       ELSE /\ annotated_image_base64' = [annotated_image_base64 EXCEPT ![r] =
                    <<EncodeJpegBase64(annotated_image[r][1])>>]
            /\ Goto(r, "serialized")
            /\ UNCHANGED response
    /\ UNCHANGED <<svcVars, clsVars, file, image_array, results, idx, detections,
                   annotated_image, detection_count, severity>>

PayloadRawCount(r) ==
    [detection_count |-> Len(AllBoxes(results[r])),
     severity_level |-> severity[r][1],
     severity_message |-> severity[r][2],
     detections |-> detections[r],
     annotated_image |-> [prefix |-> "data:image/jpeg;base64,",
                          data |-> annotated_image_base64[r][1]],
     filename |-> file[r][1].filename]

\* The response dict.
Payload(r) ==
    [detection_count |-> detection_count[r][1],
     severity_level |-> severity[r][1],
     severity_message |-> severity[r][2],
     detections |-> detections[r],
     annotated_image |-> [prefix |-> "data:image/jpeg;base64,",
                          data |-> annotated_image_base64[r][1]],
     filename |-> file[r][1].filename]

\* return JSONResponse(content=response)
Respond(r) ==
    /\ pc[r] = "serialized"
    /\ response' = [response EXCEPT ![r] =
           <<[status_code |-> 200, detail |-> <<>>, content |-> <<Payload(r)>>]>>]
    /\ Goto(r, "responded")
    /\ UNCHANGED <<svcVars, clsVars, locals>>

\* The steps of one request after its arrival.
Handle(r) ==
    \/ Validate(r)
    \/ Decode(r)
    \/ Infer(r)
    \/ LoopBox(r)
    \/ ReturnFromProcess(r)
    \/ Classify(r)
    \/ Serialize(r)
    \/ Respond(r)

(***************************************************************************)
(* The handler run from start to end with nothing else in between          *)
(***************************************************************************)
\* The loop of process_image over the boxes left, from the detections and the
\* annotated image so far.
RECURSIVE ProcessBoxes(_, _, _, _, _)
ProcessBoxes(boxes, dets, img, m, fault) ==
    IF boxes = <<>>
    THEN [raised |-> FALSE, detections |-> dets, annotated_image |-> img]
    ELSE LET box == Head(boxes) IN
         IF Keep(box.conf) /\ fault = "draw"
         THEN [raised |-> TRUE,
               detections |-> Append(dets, Detection(box, m)),
               annotated_image |-> img]
         ELSE ProcessBoxes(Tail(boxes),
                           IF Keep(box.conf) THEN Append(dets, Detection(box, m)) ELSE dets,
                           Annotate(img, box, m), m, fault)

\* The response of detect_debris(f) with model singleton m.
DetectAlone(f, m) ==
    LET img == [channels |-> "BGR", scene |-> f.scene, drawn |-> <<>>]
        out == ProcessBoxes(AllBoxes(f.scene), <<>>, img, m, f.fault)
        sev == classify_severity(Len(out.detections))
    IN
    IF ~f.has_content_type THEN ErrorResponse(ExceptHandler(ExcNoContentType))
    ELSE IF ~StartsWith(f.content_type, ImagePrefix)
    THEN ErrorResponse(ExceptHandler(ExcNotImage))
    ELSE IF f.fault = "decode" THEN ErrorResponse(ExceptHandler(ExcDecode))
    ELSE IF m = None THEN ErrorResponse(ExceptHandler(ExcModelNotLoaded))
    ELSE IF f.fault = "inference" THEN ErrorResponse(ExceptHandler(ExcInference))
    ELSE IF out.raised THEN ErrorResponse(ExceptHandler(ExcDraw))
    ELSE IF f.fault = "encode" THEN ErrorResponse(ExceptHandler(ExcEncode))
    ELSE [status_code |-> 200,
          detail |-> <<>>,
          content |-> <<[detection_count |-> Len(out.detections),
                         severity_level |-> sev[1],
                         severity_message |-> sev[2],
                         detections |-> out.detections,
                         annotated_image |->
                             [prefix |-> "data:image/jpeg;base64,",
                              data |-> EncodeJpegBase64(out.annotated_image)],
                         filename |-> f.filename]>>]

(***************************************************************************)
(* Specifications                                                          *)
(***************************************************************************)
\* One request at a time, over every upload of Uploads.
Next ==
    \/ Startup
    \/ Root
    \/ HealthCheck
    \/ \E r \in SeqRequests : \E f \in Uploads : Receive(r, f)
    \/ \E r \in SeqRequests : Handle(r)

Spec == Init /\ [][Next]_vars

\* NumRequests requests in flight at once, interleaved at every step.
NextConc ==
    \/ Startup
    \/ Root
    \/ HealthCheck
    \/ \E r \in Requests : \E f \in ConcUploads : Receive(r, f)
    \/ \E r \in Requests : Handle(r)

SpecConc == Init /\ [][NextConc]_vars

\* classify_severity applied to every count up to MaxCount.
ClassifyCall ==
    /\ \E c \in 0..MaxCount :
           cls_last' = <<[count |-> c, result |-> classify_severity(c)]>>
    /\ cls_prev' = cls_last
    /\ UNCHANGED <<svcVars, reqVars>>

NextClassify == ClassifyCall

SpecClassify == Init /\ [][NextClassify]_vars

(***************************************************************************)
(* Properties                                                              *)
(***************************************************************************)
Finished(r) == pc[r] \in {"responded", "failed"}

\* The declared content type of request r is present and starts with "image/".
DeclaredImage(r) ==
    /\ file[r][1].has_content_type
    /\ StartsWith(file[r][1].content_type, ImagePrefix)

Mentions(text, fragment) == \E i \in DOMAIN text : text[i] = fragment

\* The raw boxes of request r's upload with confidence above 0.5, in the
\* order the model yields them.
AboveThreshold(r) ==
    SelectSeq(AllBoxes(file[r][1].scene), LAMBDA b : b.conf > 500)

IsPrefix(s, t) == Len(s) <= Len(t) /\ SubSeq(t, 1, Len(s)) = s

PipelineOrder ==
    <<"received", "validated", "decoded", "inferred", "annotated",
      "classified", "serialized", "responded">>

Rank(level) == CASE level = "green" -> 0 [] level = "yellow" -> 1 [] level = "red" -> 2

\* C1: every finished POST /detect whose declared content type does not start
\* with "image/" was answered with status 400, whatever the model state.
C1_NonImageIs400 ==
    \A r \in Requests :
        (Finished(r) /\ file[r][1].has_content_type
             /\ ~StartsWith(file[r][1].content_type, ImagePrefix))
            => response[r][1].status_code = 400

\* C2 as stated: every finished POST /detect handled while the model singleton
\* is None was answered 500 with a message naming the missing model, and a
\* GET /health made in that state reported model_loaded = false.
C2_EveryRequestNamesModel ==
    /\ \A r \in Requests :
           (Finished(r) /\ model = None)
               => /\ response[r][1].status_code = 500
                  /\ Mentions(response[r][1].detail, "Model not loaded")
    /\ (model = None /\ health_response # <<>>)
           => health_response[1].body.model_loaded = FALSE

\* C2 amended: every finished POST /detect handled while the model singleton
\* is None, whose declared content type starts with "image/" and whose bytes
\* decoded, was answered 500 with the text "500: Model not loaded" and no
\* payload; and a GET /health made in that state reported model_loaded = false.
C2_DecodedRequestNamesModel ==
    /\ \A r \in Requests :
           (Finished(r) /\ model = None /\ DeclaredImage(r)
                /\ file[r][1].fault # "decode")
               => /\ response[r][1].status_code = 500
                  /\ response[r][1].detail = <<"500", ": ", "Model not loaded">>
                  /\ response[r][1].content = <<>>
    /\ (model = None /\ health_response # <<>>)
           => health_response[1].body.model_loaded = FALSE

C2_Witness ==
    /\ model = None
    /\ pc[1] = "failed"
    /\ DeclaredImage(1)
    /\ file[1][1].fault = "none"
    /\ trace[1] = <<"received", "validated", "decoded", "failed">>
    /\ health_response # <<>>

\* C3: every call classify_severity(c) returned red/Critical for c > 15,
\* yellow/Moderate for 6 <= c <= 15 and green/Low for c <= 5; two calls with
\* the same c returned the same result, and the level never decreases as c grows.
C3_SeverityTable ==
    /\ \A i \in DOMAIN cls_last :
           LET c == cls_last[i].count
               res == cls_last[i].result IN
           /\ c > 15 => res = <<"red", "Critical pollution detected">>
           /\ (6 <= c /\ c <= 15) => res = <<"yellow", "Moderate pollution detected">>
           /\ c <= 5 => res = <<"green", "Low pollution detected">>
    /\ \A i \in DOMAIN cls_prev : \A j \in DOMAIN cls_last :
           /\ cls_prev[i].count = cls_last[j].count
                  => cls_prev[i].result = cls_last[j].result
           /\ cls_prev[i].count <= cls_last[j].count
                  => Rank(cls_prev[i].result[1]) <= Rank(cls_last[j].result[1])

C3_Witness ==
    /\ cls_prev # <<>> /\ cls_last # <<>>
    /\ cls_prev[1].count = 15 /\ cls_prev[1].result[1] = "yellow"
    /\ cls_last[1].count = 16 /\ cls_last[1].result[1] = "red"

\* C4: the detections list of process_image is exactly the raw detections
\* with confidence above 0.5, in the model's order (after the loop, and at
\* every point of the loop for the boxes consumed so far).
C4_StrictThresholdInOrder ==
    \A r \in Requests :
        /\ pc[r] \in {"annotated", "classified", "serialized", "responded"}
               => /\ Len(detections[r]) = Len(AboveThreshold(r))
                  /\ \A i \in DOMAIN detections[r] :
                         /\ detections[r][i].bbox = AboveThreshold(r)[i].xyxy
                         /\ detections[r][i].confidence = AboveThreshold(r)[i].conf
                         /\ detections[r][i].confidence > 500
        /\ pc[r] = "responded"
               => response[r][1].content[1].detections = detections[r]
        /\ pc[r] = "inferred"
               => /\ IsPrefix([i \in DOMAIN detections[r] |-> detections[r][i].bbox],
                              [i \in DOMAIN AboveThreshold(r) |-> AboveThreshold(r)[i].xyxy])
                  /\ \A i \in DOMAIN detections[r] : detections[r][i].confidence > 500

C4_Witness ==
    /\ pc[1] = "responded"
    /\ Len(AllBoxes(file[1][1].scene)) = 3
    /\ Len(response[1][1].content[1].detections) = 2
    /\ [i \in 1..3 |-> AllBoxes(file[1][1].scene)[i].conf] = <<905, 500, 510>>
    /\ [i \in 1..2 |-> response[1][1].content[1].detections[i].confidence] = <<905, 510>>

\* C5: in every 200 response of POST /detect, detection_count is the length of
\* the detections of that response and the severity level and message are the
\* classification of that detection_count.
C5_CountIsLength ==
    \A r \in Requests :
        (response[r] # <<>> /\ response[r][1].status_code = 200)
            => LET body == response[r][1].content[1] IN
               /\ body.detection_count = Len(body.detections)
               /\ <<body.severity_level, body.severity_message>> =
                      classify_severity(body.detection_count)

C5_Witness ==
    /\ response[1] # <<>>
    /\ response[1][1].status_code = 200
    /\ response[1][1].content[1].detection_count = 2
    /\ Len(AllBoxes(results[1])) = 3

\* C6: a request that passed the content-type validation and then met a
\* failure (decode, model unavailable, inference, annotation, encoding) ended
\* with one 500 response carrying the text of the first failure and no
\* payload; and no request holds a response before it has ended.
C6_FailureIs500 ==
    \A r \in Requests :
        /\ ~Finished(r) => response[r] = <<>>
        /\ (Finished(r) /\ DeclaredImage(r)) =>
               LET f == file[r][1]
                   text ==
                       IF f.fault = "decode" THEN <<"cannot identify image file">>
                       ELSE IF model = None THEN <<"500", ": ", "Model not loaded">>
                       ELSE IF f.fault = "inference" THEN <<"inference failed">>
                       ELSE IF f.fault = "draw" /\ AboveThreshold(r) # <<>>
                       THEN <<"rectangle failed">>
                       ELSE IF f.fault = "encode" THEN <<"imencode failed">>
                       ELSE <<>>
               IN IF text # <<>>
                  THEN /\ pc[r] = "failed"
                       /\ response[r] =
                              <<[status_code |-> 500, detail |-> text, content |-> <<>>]>>
                       /\ Len(SelectSeq(trace[r], LAMBDA st : st = "failed")) = 1
                  ELSE /\ pc[r] = "responded"
                       /\ response[r][1].status_code = 200

C6_Witness ==
    /\ pc[1] = "failed"
    /\ DeclaredImage(1)
    /\ file[1][1].fault = "draw"
    /\ model # None
    /\ Len(detections[1]) = 1
    /\ response[1][1].status_code = 500
    /\ response[1][1].detail = <<"rectangle failed">>

\* C7: whatever the interleaving, the response of every finished request is
\* the response its own upload gets when handled alone.
C7_Isolation ==
    \A r \in Requests :
        Finished(r) => response[r] = <<DetectAlone(file[r][1], model)>>

C7_Witness ==
    /\ pc[1] = "responded"
    /\ pc[2] = "inferred"
    /\ file[1] # file[2]
    /\ Len(detections[2]) > 0
    /\ Len(response[1][1].content[1].detections) > 0
    /\ response[1][1].content[1].detections[1] # detections[2][1]

\* C8: a 200 response for an image with no raw detection above the threshold
\* has detection_count 0, level green, no detections, and an annotated image
\* on which nothing was drawn: the encoded image is the decoded input.
C8_NothingAboveThreshold ==
    \A r \in Requests :
        (pc[r] = "responded" /\ AboveThreshold(r) = <<>>)
            => LET body == response[r][1].content[1] IN
               /\ response[r][1].status_code = 200
               /\ body.detection_count = 0
               /\ body.severity_level = "green"
               /\ body.detections = <<>>
               /\ annotated_image[r] = image_array[r]
               /\ body.annotated_image.data.bytes.image = image_array[r][1]
               /\ body.annotated_image.data.bytes.image.drawn = <<>>

C8_Witness ==
    /\ pc[1] = "responded"
    /\ Len(AllBoxes(file[1][1].scene)) = 2
    /\ AllBoxes(file[1][1].scene)[1].conf = 500
    /\ AllBoxes(file[1][1].scene)[2].conf = 300
    /\ response[1][1].content[1].detection_count = 0

\* C9: the positions a request went through are a prefix of Received,
\* Validated, Decoded, Inferred, Annotated, Classified, Serialized, Responded,
\* or such a prefix short of Responded followed by Failed; a request holds a
\* response exactly when it is Responded or Failed; and a request that is
\* Responded or Failed stays as it is.
C9_Trace ==
    \A r \in Requests :
        /\ pc[r] = "idle" <=> trace[r] = <<>>
        /\ trace[r] # <<>> =>
               /\ pc[r] = trace[r][Len(trace[r])]
               /\ \/ IsPrefix(trace[r], PipelineOrder)
                  \/ /\ pc[r] = "failed"
                     /\ Len(trace[r]) >= 2
                     /\ Len(trace[r]) <= Len(PipelineOrder)
                     /\ IsPrefix(SubSeq(trace[r], 1, Len(trace[r]) - 1), PipelineOrder)
        /\ pc[r] = "responded" => trace[r] = PipelineOrder
        /\ Finished(r) <=> response[r] # <<>>

\* C9: every request follows the per-request state machine (C9_Trace in every
\* state) and, once Responded or Failed, never moves again: no retry.
C9_StateMachine ==
    /\ []C9_Trace
    /\ [][\A r \in Requests :
              Finished(r) => /\ pc'[r] = pc[r]
                             /\ trace'[r] = trace[r]
                             /\ response'[r] = response[r]]_vars

C9_Witness ==
    /\ pc[1] = "failed"
    /\ trace[1] = <<"received", "validated", "decoded", "inferred", "annotated",
                    "classified", "failed">>

\* C10: once startup has run no step changes the model singleton; before it no
\* request is served; every GET / and GET /health is answered 200, /health
\* with model_loaded telling whether the singleton is set, the same on every
\* call; and with the singleton None every finished POST /detect has failed.
C10_State ==
    /\ ~started => /\ model = None
                   /\ root_response = <<>> /\ health_response = <<>>
                   /\ \A r \in Requests : pc[r] = "idle"
    /\ root_response # <<>> => root_response[1].status_code = 200
    /\ health_response # <<>> =>
           /\ health_response[1].status_code = 200
           /\ health_response[1].body.model_loaded = (model # None)
    /\ model = None =>
           \A r \in Requests :
               Finished(r) => /\ pc[r] = "failed"
                              /\ response[r][1].status_code >= 400

\* C10: C10_State in every state; after startup no step of any handler writes
\* the model singleton, and successive GET /health report the same
\* model_loaded.
C10_ModelFrame ==
    /\ []C10_State
    /\ [][/\ started => (started' /\ model' = model)
          /\ (health_response # <<>> /\ health_response' # <<>>)
                 => health_response'[1].body.model_loaded =
                        health_response[1].body.model_loaded]_vars

C10_Witness ==
    /\ started
    /\ model = None
    /\ root_response # <<>>
    /\ health_response # <<>>
    /\ health_response[1].body.model_loaded = FALSE
    /\ pc[1] = "failed"

====
